---- MODULE Spec2Model ----
(***************************************************************************)
(* Render orchestration layer of oxide-renderer: the named pipeline cache  *)
(* (pipeline_manager.rs), the draw strategies (draw_traits.rs), the        *)
(* renderable object (renderable_object.rs), the raw instance record       *)
(* (instance.rs) and the frame orchestrator (state.rs).                    *)
(***************************************************************************)
EXTENDS Integers, Sequences, FiniteSets, TLC

VARIABLES
  pipelines,              \* PipelineManager.pipelines : Vec<RenderPipeline>
  pipeline_map,           \* PipelineManager.pipeline_map : HashMap<String, usize>
  registered,             \* history: names ever passed to add_pipeline
  first_handle,           \* history: handle returned by the first add_pipeline of a name
  objects,                \* the RenderableObjects constructed so far, in construction order
  config,                 \* State.config (width, height)
  is_surface_configured,  \* State.is_surface_configured
  depth_texture,          \* State.depth_texture (its extent)
  projection,             \* State.projection (the width, height its aspect is taken from)
  surface,                \* what State.surface was last configured with, or None
  camera,                 \* State.camera
  camera_controller,      \* State.camera_controller (the movement keys it holds pressed)
  camera_buffer,          \* contents of State.camera_buffer
  light_uniform,          \* State.light_uniform
  light_buffer,           \* contents of State.light_buffer
  panicked,               \* the process has panicked
  last                    \* the last operation performed, its arguments and what it produced

pmVars == <<pipelines, pipeline_map, registered, first_handle>>
stVars == <<config, is_surface_configured, depth_texture, projection, surface,
            camera, camera_controller, camera_buffer, light_uniform, light_buffer>>
vars == <<pipelines, pipeline_map, registered, first_handle, objects,
          config, is_surface_configured, depth_texture, projection, surface,
          camera, camera_controller, camera_buffer, light_uniform, light_buffer,
          panicked, last>>

\* ------------------------------------------------------------------ bounds
MaxInstances == 2    \* longest instance list of a RenderableObject
MaxObjects == 2      \* most RenderableObjects constructed
MaxDim == 2          \* largest width / height of the window and of a resize event

\* ------------------------------------------------------------------ Option<T>
None == [some |-> FALSE]
Some(x) == [some |-> TRUE, val |-> x]

\* ------------------------------------------------------------------ pipeline_manager.rs
Names == {"main", "light", "ghost"}

\* The two pipeline descriptors the renderer builds (state.rs:230-279): the
\* textured one and the light-indicator one.
DescMain == [shader |-> "shader.wgsl",
             bind_group_layouts |-> <<"texture", "camera", "light">>,
             vertex_layouts |-> <<"ModelVertex", "InstanceRaw">>,
             surface_format |-> "srgb"]
DescLight == [shader |-> "light.wgsl",
              bind_group_layouts |-> <<"camera", "light">>,
              vertex_layouts |-> <<"ModelVertex">>,
              surface_format |-> "srgb"]
Descs == {DescMain, DescLight}

\* pipeline::create_render_pipeline as called by add_pipeline: the pipeline
\* object is determined by the name-labelled layout and the descriptor.
create_render_pipeline(name, desc) ==
  [owner |-> "PipelineManager", label |-> name, desc |-> desc]

\* PipelineManager::new
PipelineManager_new ==
  /\ pipelines = << >>
  /\ pipeline_map = << >>
  /\ registered = {}
  /\ first_handle = << >>

\* Mutation of add_pipeline: the cache-hit early return is missing.
add_pipeline_norecheck(name, desc) ==
  LET index == Len(pipelines) IN
  /\ ~panicked
  /\ pipelines' = Append(pipelines, create_render_pipeline(name, desc))
  /\ pipeline_map' = [n \in DOMAIN pipeline_map \cup {name} |->
                        IF n = name THEN index ELSE pipeline_map[n]]
  /\ registered' = registered \cup {name}
  /\ first_handle' = IF name \in registered THEN first_handle
                     ELSE [n \in DOMAIN first_handle \cup {name} |->
                             IF n = name THEN index ELSE first_handle[n]]
  /\ last' = [op |-> "add_pipeline", name |-> name, desc |-> desc, ret |-> index]
  /\ UNCHANGED <<objects, stVars, panicked>>

\* Mutation of add_pipeline: the index is taken after the push.
add_pipeline_index_after_push(name, desc) ==
  /\ ~panicked
  /\ IF name \in DOMAIN pipeline_map
       THEN /\ last' = [op |-> "add_pipeline", name |-> name, desc |-> desc,
                        ret |-> pipeline_map[name]]
            /\ registered' = registered \cup {name}
            /\ UNCHANGED <<pipelines, pipeline_map, first_handle>>
       ELSE LET index == Len(pipelines) + 1 IN
            /\ pipelines' = Append(pipelines, create_render_pipeline(name, desc))
            /\ pipeline_map' = [n \in DOMAIN pipeline_map \cup {name} |->
                                  IF n = name THEN index ELSE pipeline_map[n]]
            /\ registered' = registered \cup {name}
            /\ first_handle' = IF name \in registered THEN first_handle
                               ELSE [n \in DOMAIN first_handle \cup {name} |->
                                       IF n = name THEN index ELSE first_handle[n]]
            /\ last' = [op |-> "add_pipeline", name |-> name, desc |-> desc,
                        ret |-> index]
  /\ UNCHANGED <<objects, stVars, panicked>>

\* Mutation of add_pipeline: a repeated registration rebuilds the pipeline in
\* place (hot reload).
add_pipeline_reloads(name, desc) ==
  /\ ~panicked
  /\ IF name \in DOMAIN pipeline_map
       THEN /\ last' = [op |-> "add_pipeline", name |-> name, desc |-> desc,
                        ret |-> pipeline_map[name]]
            /\ pipelines' = [pipelines EXCEPT ![pipeline_map[name] + 1] =
                               create_render_pipeline(name, desc)]
            /\ registered' = registered \cup {name}
            /\ UNCHANGED <<pipeline_map, first_handle>>
       ELSE LET index == Len(pipelines) IN
            /\ pipelines' = Append(pipelines, create_render_pipeline(name, desc))
            /\ pipeline_map' = [n \in DOMAIN pipeline_map \cup {name} |->
                                  IF n = name THEN index ELSE pipeline_map[n]]
            /\ registered' = registered \cup {name}
            /\ first_handle' = IF name \in registered THEN first_handle
                               ELSE [n \in DOMAIN first_handle \cup {name} |->
                                       IF n = name THEN index ELSE first_handle[n]]
            /\ last' = [op |-> "add_pipeline", name |-> name, desc |-> desc,
                        ret |-> index]
  /\ UNCHANGED <<objects, stVars, panicked>>

\* PipelineManager::add_pipeline(device, name, shader_source,
\* bind_group_layouts, vertex_layouts, surface_format) -> usize
add_pipeline(name, desc) ==
  /\ ~panicked
  /\ IF name \in DOMAIN pipeline_map
       THEN /\ last' = [op |-> "add_pipeline", name |-> name, desc |-> desc,
                        ret |-> pipeline_map[name]]
            /\ registered' = registered \cup {name}
            /\ UNCHANGED <<pipelines, pipeline_map, first_handle>>
       ELSE LET index == Len(pipelines) IN
            /\ pipelines' = Append(pipelines, create_render_pipeline(name, desc))
            /\ pipeline_map' = [n \in DOMAIN pipeline_map \cup {name} |->
                                  IF n = name THEN index ELSE pipeline_map[n]]
            /\ registered' = registered \cup {name}
            /\ first_handle' = IF name \in registered THEN first_handle
                               ELSE [n \in DOMAIN first_handle \cup {name} |->
                                       IF n = name THEN index ELSE first_handle[n]]
            /\ last' = [op |-> "add_pipeline", name |-> name, desc |-> desc,
                        ret |-> index]
  /\ UNCHANGED <<objects, stVars, panicked>>

\* PipelineManager::get(index) -> Option<&RenderPipeline>
get(index) ==
  IF index < Len(pipelines) THEN Some(pipelines[index + 1]) ELSE None

\* PipelineManager::get_by_name(name) -> Option<&RenderPipeline>
get_by_name(name) ==
  IF name \in DOMAIN pipeline_map THEN get(pipeline_map[name]) ELSE None

\* A caller's get_by_name: the manager is borrowed immutably.
lookup(name) ==
  /\ ~panicked
  /\ last' = [op |-> "get_by_name", name |-> name, ret |-> get_by_name(name)]
  /\ UNCHANGED <<pmVars, objects, stVars, panicked>>

\* ------------------------------------------------------------------ instance.rs
\* An Instance is a position and a rotation.  Positions are integer vectors;
\* rotations are quarter turns about the z axis (the quaternion of angle
\* 90 * rotation degrees), whose matrices have entries in {-1, 0, 1}.
Positions == {<<0, 0, 0>>, <<3, 0, -3>>}
Rotations == {0, 1}
Instances == [position : Positions, rotation : Rotations]

Cos(k) == CASE k % 4 = 0 -> 1 [] k % 4 = 1 -> 0 [] k % 4 = 2 -> -1 [] OTHER -> 0
Sin(k) == CASE k % 4 = 0 -> 0 [] k % 4 = 1 -> 1 [] k % 4 = 2 -> 0 [] OTHER -> -1

\* cgmath::Matrix3::from(rotation), as columns
Matrix3_from(q) ==
  << <<Cos(q), Sin(q), 0>>, <<0 - Sin(q), Cos(q), 0>>, <<0, 0, 1>> >>

\* cgmath::Matrix4::from_translation(position) * cgmath::Matrix4::from(rotation),
\* as columns: the rotation's columns with w = 0, then (position, 1)
Matrix4_translation_times_rotation(p, q) ==
  LET r == Matrix3_from(q) IN
  << <<r[1][1], r[1][2], r[1][3], 0>>,
     <<r[2][1], r[2][2], r[2][3], 0>>,
     <<r[3][1], r[3][2], r[3][3], 0>>,
     <<p[1], p[2], p[3], 1>> >>

\* Instance::to_raw
to_raw(i) ==
  [model |-> Matrix4_translation_times_rotation(i.position, i.rotation),
   normal |-> Matrix3_from(i.rotation)]

\* instances.iter().map(Instance::to_raw).collect::<Vec<_>>()
RECURSIVE instance_data(_)
instance_data(instances) ==
  IF instances = << >> THEN << >>
  ELSE <<to_raw(Head(instances))>> \o instance_data(Tail(instances))

NUM_INSTANCES_PER_ROW == 10

\* instance::create_instances().len(): one instance per (z, x) pair
create_instances_len == NUM_INSTANCES_PER_ROW * NUM_INSTANCES_PER_ROW

\* ------------------------------------------------------------------ model data
\* Meshes, materials and models as the loader hands them over (model::Mesh,
\* model::Material, model::Model as draw_traits.rs reads them).
MatA == [name |-> "matA", bind_group |-> "bgMatA"]
MatB == [name |-> "matB", bind_group |-> "bgMatB"]
MeshA == [vertex_buffer |-> "vbA", index_buffer |-> "ibA", num_elements |-> 36, material |-> 0]
MeshB == [vertex_buffer |-> "vbB", index_buffer |-> "ibB", num_elements |-> 6, material |-> 1]
MeshBad == [vertex_buffer |-> "vbC", index_buffer |-> "ibC", num_elements |-> 3, material |-> 2]
Meshes == {MeshA, MeshB, MeshBad}
Materials == {MatA, MatB}
ModelCube == [meshes |-> <<MeshA>>, materials |-> <<MatA>>]
ModelTwo == [meshes |-> <<MeshB, MeshA>>, materials |-> <<MatA, MatB>>]
ModelEmpty == [meshes |-> << >>, materials |-> << >>]
ModelBad == [meshes |-> <<MeshA, MeshBad>>, materials |-> <<MatA, MatB>>]
Models == {ModelCube, ModelTwo, ModelEmpty, ModelBad}
BindGroups == {"camera_bind_group", "light_bind_group"}

\* Range<u32> values start..end
Ranges == {<<a, b>> : a \in 0..1, b \in 0..MaxInstances}

\* ------------------------------------------------------------------ draw_traits.rs
\* A render pass is the sequence of commands recorded into it.  The mesh
\* forms return the pass; the model forms return the pass and whether the
\* call panicked (an out-of-range index into model.materials).
DrawMethods == {"WithMaterial", "WithoutMaterial"}

\* Mutation of DrawWithMaterial::draw_mesh_instanced: the camera and light
\* groups are bound at each other's slot.
DrawWithMaterial_draw_mesh_instanced_swapped(self, mesh, material, instances, camera_bind_group, light_bind_group) ==
  self \o
  << [op |-> "set_vertex_buffer", slot |-> 0, buffer |-> mesh.vertex_buffer],
     [op |-> "set_index_buffer", buffer |-> mesh.index_buffer, format |-> "Uint32"],
     [op |-> "set_bind_group", index |-> 0, group |-> material.bind_group],
     [op |-> "set_bind_group", index |-> 2, group |-> camera_bind_group],
     [op |-> "set_bind_group", index |-> 1, group |-> light_bind_group],
     [op |-> "draw_indexed", indices |-> <<0, mesh.num_elements>>,
      base_vertex |-> 0, instances |-> instances] >>

\* impl DrawWithMaterial for wgpu::RenderPass: draw_mesh_instanced
DrawWithMaterial_draw_mesh_instanced(self, mesh, material, instances, camera_bind_group, light_bind_group) ==
  self \o
  << [op |-> "set_vertex_buffer", slot |-> 0, buffer |-> mesh.vertex_buffer],
     [op |-> "set_index_buffer", buffer |-> mesh.index_buffer, format |-> "Uint32"],
     [op |-> "set_bind_group", index |-> 0, group |-> material.bind_group],
     [op |-> "set_bind_group", index |-> 1, group |-> camera_bind_group],
     [op |-> "set_bind_group", index |-> 2, group |-> light_bind_group],
     [op |-> "draw_indexed", indices |-> <<0, mesh.num_elements>>,
      base_vertex |-> 0, instances |-> instances] >>

\* Mutation of DrawWithMaterial::draw_mesh: the range 0..2 instead of 0..1.
DrawWithMaterial_draw_mesh_two(self, mesh, material, camera_bind_group, light_bind_group) ==
  DrawWithMaterial_draw_mesh_instanced(self, mesh, material, <<0, 2>>,
                                       camera_bind_group, light_bind_group)

\* impl DrawWithMaterial for wgpu::RenderPass: draw_mesh
DrawWithMaterial_draw_mesh(self, mesh, material, camera_bind_group, light_bind_group) ==
  DrawWithMaterial_draw_mesh_instanced(self, mesh, material, <<0, 1>>,
                                       camera_bind_group, light_bind_group)

\* Mutation of DrawWithMaterial::draw_model_instanced: an out-of-range
\* material index wraps around instead of failing.
RECURSIVE DrawWithMaterial_meshes_wrapping(_, _, _, _, _, _)
DrawWithMaterial_meshes_wrapping(self, meshes, materials, instances, camera_bind_group, light_bind_group) ==
  IF meshes = << >> THEN [pass |-> self, panicked |-> FALSE]
  ELSE LET mesh == Head(meshes) IN
       IF materials = << >>
         THEN [pass |-> self, panicked |-> TRUE]
         ELSE DrawWithMaterial_meshes_wrapping(
                DrawWithMaterial_draw_mesh_instanced(
                  self, mesh, materials[(mesh.material % Len(materials)) + 1],
                  instances, camera_bind_group, light_bind_group),
                Tail(meshes), materials, instances,
                camera_bind_group, light_bind_group)

\* impl DrawWithMaterial for wgpu::RenderPass: draw_model_instanced
RECURSIVE DrawWithMaterial_meshes(_, _, _, _, _, _)
DrawWithMaterial_meshes(self, meshes, materials, instances, camera_bind_group, light_bind_group) ==
  IF meshes = << >> THEN [pass |-> self, panicked |-> FALSE]
  ELSE LET mesh == Head(meshes) IN
       IF mesh.material >= Len(materials)
         THEN [pass |-> self, panicked |-> TRUE]
         ELSE DrawWithMaterial_meshes(
                DrawWithMaterial_draw_mesh_instanced(
                  self, mesh, materials[mesh.material + 1], instances,
                  camera_bind_group, light_bind_group),
                Tail(meshes), materials, instances,
                camera_bind_group, light_bind_group)

DrawWithMaterial_draw_model_instanced(self, model, instances, camera_bind_group, light_bind_group) ==
  DrawWithMaterial_meshes(self, model.meshes, model.materials, instances,
                          camera_bind_group, light_bind_group)

\* impl DrawWithMaterial for wgpu::RenderPass: draw_model
DrawWithMaterial_draw_model(self, model, camera_bind_group, light_bind_group) ==
  DrawWithMaterial_draw_model_instanced(self, model, <<0, 1>>,
                                        camera_bind_group, light_bind_group)

\* Mutation of DrawWithoutMaterial::draw_mesh_instanced: the camera and light
\* groups keep the slots of the with-material strategy (1 and 2).
DrawWithoutMaterial_draw_mesh_instanced_shifted(self, mesh, instances, camera_bind_group, light_bind_group) ==
  self \o
  << [op |-> "set_vertex_buffer", slot |-> 0, buffer |-> mesh.vertex_buffer],
     [op |-> "set_index_buffer", buffer |-> mesh.index_buffer, format |-> "Uint32"],
     [op |-> "set_bind_group", index |-> 1, group |-> camera_bind_group],
     [op |-> "set_bind_group", index |-> 2, group |-> light_bind_group],
     [op |-> "draw_indexed", indices |-> <<0, mesh.num_elements>>,
      base_vertex |-> 0, instances |-> instances] >>

\* impl DrawWithoutMaterial for wgpu::RenderPass: draw_mesh_instanced
DrawWithoutMaterial_draw_mesh_instanced(self, mesh, instances, camera_bind_group, light_bind_group) ==
  self \o
  << [op |-> "set_vertex_buffer", slot |-> 0, buffer |-> mesh.vertex_buffer],
     [op |-> "set_index_buffer", buffer |-> mesh.index_buffer, format |-> "Uint32"],
     [op |-> "set_bind_group", index |-> 0, group |-> camera_bind_group],
     [op |-> "set_bind_group", index |-> 1, group |-> light_bind_group],
     [op |-> "draw_indexed", indices |-> <<0, mesh.num_elements>>,
      base_vertex |-> 0, instances |-> instances] >>

\* impl DrawWithoutMaterial for wgpu::RenderPass: draw_mesh
DrawWithoutMaterial_draw_mesh(self, mesh, camera_bind_group, light_bind_group) ==
  DrawWithoutMaterial_draw_mesh_instanced(self, mesh, <<0, 1>>,
                                          camera_bind_group, light_bind_group)

\* Mutation of DrawWithoutMaterial::draw_model_instanced: the meshes are
\* drawn last to first.
RECURSIVE DrawWithoutMaterial_meshes_reversed(_, _, _, _, _)
DrawWithoutMaterial_meshes_reversed(self, meshes, instances, camera_bind_group, light_bind_group) ==
  IF meshes = << >> THEN [pass |-> self, panicked |-> FALSE]
  ELSE DrawWithoutMaterial_meshes_reversed(
         DrawWithoutMaterial_draw_mesh_instanced(
           self, meshes[Len(meshes)], instances, camera_bind_group, light_bind_group),
         SubSeq(meshes, 1, Len(meshes) - 1), instances,
         camera_bind_group, light_bind_group)

\* impl DrawWithoutMaterial for wgpu::RenderPass: draw_model_instanced
RECURSIVE DrawWithoutMaterial_meshes(_, _, _, _, _)
DrawWithoutMaterial_meshes(self, meshes, instances, camera_bind_group, light_bind_group) ==
  IF meshes = << >> THEN [pass |-> self, panicked |-> FALSE]
  ELSE DrawWithoutMaterial_meshes(
         DrawWithoutMaterial_draw_mesh_instanced(
           self, Head(meshes), instances, camera_bind_group, light_bind_group),
         Tail(meshes), instances, camera_bind_group, light_bind_group)

DrawWithoutMaterial_draw_model_instanced(self, model, instances, camera_bind_group, light_bind_group) ==
  DrawWithoutMaterial_meshes(self, model.meshes, instances,
                             camera_bind_group, light_bind_group)

\* impl DrawWithoutMaterial for wgpu::RenderPass: draw_model
DrawWithoutMaterial_draw_model(self, model, camera_bind_group, light_bind_group) ==
  DrawWithoutMaterial_draw_model_instanced(self, model, <<0, 1>>,
                                           camera_bind_group, light_bind_group)

\* ------------------------------------------------------------------ GPU buffers
\* A buffer of raw instance records is the sequence of records it holds; its
\* size is fixed when it is created.
\* device.create_buffer_init(contents): a buffer sized to its contents
create_buffer_init(contents) == contents

\* queue.write_buffer(buffer, 0, data) overruns the buffer when data is longer
\* than the buffer: a validation error, which panics (no error handler is set)
write_buffer_overruns(buffer, data) == Len(data) > Len(buffer)

\* queue.write_buffer(buffer, 0, data): the first Len(data) records are
\* overwritten, the rest of the buffer keeps what it held
write_buffer(buffer, data) ==
  IF write_buffer_overruns(buffer, data) THEN buffer
  ELSE data \o SubSeq(buffer, Len(data) + 1, Len(buffer))

\* ------------------------------------------------------------------ renderable_object.rs
PipelineNames == {None} \cup {Some(n) : n \in Names}

\* All instance lists of length at most n
RECURSIVE InstanceLists(_)
InstanceLists(n) ==
  IF n = 0 THEN {<< >>}
  ELSE InstanceLists(n - 1) \cup
       {Append(l, i) : l \in {x \in InstanceLists(n - 1) : Len(x) = n - 1},
                       i \in Instances}

\* RenderableObject::new(device, model, instances, pipeline_name, draw_method)
RenderableObject_new(model, instances, pipeline_name, draw_method) ==
  /\ ~panicked
  /\ objects' = Append(objects,
       [model |-> model,
        instances |-> instances,
        instance_buffer |-> create_buffer_init(instance_data(instances)),
        pipeline_name |-> pipeline_name,
        draw_method |-> draw_method])
  /\ last' = [op |-> "RenderableObject::new", obj |-> Len(objects) + 1]
  /\ UNCHANGED <<pmVars, stVars, panicked>>

\* Mutation of RenderableObject::draw: the last instance is left out of the
\* range.
RenderableObject_draw_partial(self, render_pass, camera_bind_group, light_bind_group) ==
  LET n == Len(self.instances)
      instances == <<0, IF n = 0 THEN 0 ELSE n - 1>> IN
  IF self.draw_method = "WithMaterial"
    THEN DrawWithMaterial_draw_model_instanced(
           render_pass, self.model, instances, camera_bind_group, light_bind_group)
    ELSE DrawWithoutMaterial_draw_model_instanced(
           render_pass, self.model, instances, camera_bind_group, light_bind_group)

\* RenderableObject::draw(render_pass, camera_bind_group, light_bind_group)
RenderableObject_draw(self, render_pass, camera_bind_group, light_bind_group) ==
  LET instances == <<0, Len(self.instances)>> IN
  IF self.draw_method = "WithMaterial"
    THEN DrawWithMaterial_draw_model_instanced(
           render_pass, self.model, instances, camera_bind_group, light_bind_group)
    ELSE DrawWithoutMaterial_draw_model_instanced(
           render_pass, self.model, instances, camera_bind_group, light_bind_group)

\* A caller draws object i into a fresh render pass.
draw(i) ==
  LET out == RenderableObject_draw(objects[i], << >>,
                                   "camera_bind_group", "light_bind_group") IN
  /\ ~panicked
  /\ i \in 1..Len(objects)
  /\ last' = [op |-> "RenderableObject::draw", obj |-> i, pass |-> out.pass]
  /\ panicked' = out.panicked
  /\ UNCHANGED <<pmVars, objects, stVars>>

\* RenderableObject::update_instances(queue)
update_instances(i) ==
  LET data == instance_data(objects[i].instances) IN
  /\ ~panicked
  /\ i \in 1..Len(objects)
  /\ objects' = [objects EXCEPT ![i].instance_buffer = write_buffer(@, data)]
  /\ panicked' = write_buffer_overruns(objects[i].instance_buffer, data)
  /\ last' = [op |-> "update_instances", obj |-> i]
  /\ UNCHANGED <<pmVars, stVars>>

\* `instances` is a pub field: its owner pushes to it,
instances_push(i, inst) ==
  /\ ~panicked
  /\ i \in 1..Len(objects)
  /\ objects' = [objects EXCEPT ![i].instances = Append(@, inst)]
  /\ last' = [op |-> "instances.push", obj |-> i]
  /\ UNCHANGED <<pmVars, stVars, panicked>>

\* pops from it,
instances_pop(i) ==
  /\ ~panicked
  /\ i \in 1..Len(objects)
  /\ objects[i].instances # << >>
  /\ objects' = [objects EXCEPT
                   ![i].instances = SubSeq(@, 1, Len(@) - 1)]
  /\ last' = [op |-> "instances.pop", obj |-> i]
  /\ UNCHANGED <<pmVars, stVars, panicked>>

\* and overwrites an element of it.
instances_set(i, k, inst) ==
  /\ ~panicked
  /\ i \in 1..Len(objects)
  /\ k \in 1..Len(objects[i].instances)
  /\ objects' = [objects EXCEPT ![i].instances[k] = inst]
  /\ last' = [op |-> "instances.set", obj |-> i]
  /\ UNCHANGED <<pmVars, stVars, panicked>>

\* ------------------------------------------------------------------ state.rs
Dims == 0..MaxDim

\* texture::Texture::create_depth_texture(device, config, label): a depth
\* texture of the configuration's extent
create_depth_texture(cfg) == [width |-> cfg.width, height |-> cfg.height]

\* camera::Projection::new(width, height, ..) and Projection::resize(width,
\* height): the aspect ratio is that of width : height
Projection_resize(width, height) == [width |-> width, height |-> height]

\* The camera poses the controller can move the camera to.
Cameras == {"pose0", "pose1"}

\* KeyCode values of a key event: Escape, two keys the camera controller
\* moves on, and a key nobody handles.
Keys == {"Escape", "KeyW", "Space", "KeyQ"}

\* The keys the camera controller accumulates movement from.
MovementKeys == {"KeyW", "Space"}

\* CameraController::new: no key is held.
CameraController_new == {}

\* CameraController::handle_key(key, pressed) -> bool: a movement key is
\* accumulated and reported as handled; any other key is left to the caller.
CameraController_handle_key(self, key, pressed) ==
  [self |-> IF key \in MovementKeys
              THEN IF pressed THEN self \cup {key} ELSE self \ {key}
              ELSE self,
   handled |-> key \in MovementKeys]

\* CameraUniform::update_view_proj(camera, projection)
update_view_proj(cam, proj) ==
  [view_position |-> cam, view_proj |-> [projection |-> proj, camera |-> cam]]

\* Elapsed times dt of an update, in seconds.
Dts == {0, 1, 2}

\* The light's position: the number of 60 degree steps about the y axis it
\* has been rotated from its initial position [2, 2, 2].
rotate_light(position, dt) == (position + dt) % 6

\* The pipelines State::new builds and State owns.
render_pipeline == [owner |-> "State", label |-> "Render Pipeline Layout", desc |-> DescMain]
light_render_pipeline == [owner |-> "State", label |-> "Light Pipeline Layout", desc |-> DescLight]

\* State.obj_model: resources::load_model("cube.obj", ..)
obj_model == ModelCube

\* State.instance_buffer, created from State.instances in State::new
State_instance_buffer == [owner |-> "State", id |-> 0]

\* SurfaceError values of surface.get_current_texture()
SurfaceErrors == {"Timeout", "Outdated", "Lost"}

\* State::new(window), with size = window.inner_size()
State_new ==
  /\ config \in [width : 1..MaxDim, height : 1..MaxDim]
  /\ is_surface_configured = FALSE
  /\ depth_texture = create_depth_texture(config)
  /\ projection = Projection_resize(config.width, config.height)
  /\ surface = None
  /\ camera = "pose0"
  /\ camera_controller = CameraController_new
  /\ camera_buffer = update_view_proj(camera, projection)
  /\ light_uniform = [position |-> 0, color |-> <<1, 1, 1>>]
  /\ light_buffer = light_uniform

\* Mutation of resize: the depth texture is not recreated.
resize_keeps_depth(width, height) ==
  /\ ~panicked
  /\ IF width > 0 /\ height > 0
       THEN /\ config' = [width |-> width, height |-> height]
            /\ is_surface_configured' = TRUE
            /\ projection' = Projection_resize(width, height)
            /\ surface' = Some([width |-> width, height |-> height])
            /\ UNCHANGED depth_texture
       ELSE UNCHANGED <<config, is_surface_configured, projection, surface,
                        depth_texture>>
  /\ last' = [op |-> "resize", width |-> width, height |-> height]
  /\ UNCHANGED <<pmVars, objects, camera, camera_controller, camera_buffer,
                 light_uniform, light_buffer, panicked>>

\* Mutation of resize: the guard is width > 0 || height > 0.
resize_either_positive(width, height) ==
  /\ ~panicked
  /\ IF width > 0 \/ height > 0
       THEN LET cfg == [width |-> width, height |-> height] IN
            /\ config' = cfg
            /\ is_surface_configured' = TRUE
            /\ projection' = Projection_resize(cfg.width, cfg.height)
            /\ surface' = Some(cfg)
            /\ depth_texture' = create_depth_texture(cfg)
       ELSE UNCHANGED <<config, is_surface_configured, projection, surface,
                        depth_texture>>
  /\ last' = [op |-> "resize", width |-> width, height |-> height]
  /\ UNCHANGED <<pmVars, objects, camera, camera_controller, camera_buffer,
                 light_uniform, light_buffer, panicked>>

\* State::resize(width, height)
resize(width, height) ==
  /\ ~panicked
  /\ IF width > 0 /\ height > 0
       THEN LET cfg == [width |-> width, height |-> height] IN
            /\ config' = cfg
            /\ is_surface_configured' = TRUE
            /\ projection' = Projection_resize(cfg.width, cfg.height)
            /\ surface' = Some(cfg)
            /\ depth_texture' = create_depth_texture(cfg)
       ELSE UNCHANGED <<config, is_surface_configured, projection, surface,
                        depth_texture>>
  /\ last' = [op |-> "resize", width |-> width, height |-> height]
  /\ UNCHANGED <<pmVars, objects, camera, camera_controller, camera_buffer,
                 light_uniform, light_buffer, panicked>>

\* Mutation of handle_key: the pressed flag is not looked at.
handle_key_ignores_pressed(key, pressed) ==
  /\ ~panicked
  /\ camera_controller' = CameraController_handle_key(camera_controller, key, pressed).self
  /\ last' = [op |-> "handle_key", key |-> key, pressed |-> pressed,
              exit |-> /\ ~CameraController_handle_key(camera_controller, key, pressed).handled
                       /\ key = "Escape"]
  /\ UNCHANGED <<pmVars, objects, config, is_surface_configured, depth_texture,
                 projection, surface, camera, camera_buffer, light_uniform,
                 light_buffer, panicked>>

\* State::handle_key(event_loop, key, pressed); exit records whether
\* event_loop.exit() was called
handle_key(key, pressed) ==
  /\ ~panicked
  /\ camera_controller' = CameraController_handle_key(camera_controller, key, pressed).self
  /\ last' = [op |-> "handle_key", key |-> key, pressed |-> pressed,
              exit |-> /\ ~CameraController_handle_key(camera_controller, key, pressed).handled
                       /\ key = "Escape"
                       /\ pressed]
  /\ UNCHANGED <<pmVars, objects, config, is_surface_configured, depth_texture,
                 projection, surface, camera, camera_buffer, light_uniform,
                 light_buffer, panicked>>

\* Mutation of update: the light buffer is not written.
update_skips_light_write(dt, new_pose) ==
  /\ ~panicked
  /\ camera' = new_pose
  /\ camera_buffer' = update_view_proj(new_pose, projection)
  /\ light_uniform' = [light_uniform EXCEPT !.position = rotate_light(@, dt)]
  /\ last' = [op |-> "update", dt |-> dt,
              log |-> << [op |-> "write_buffer", buffer |-> "camera_buffer"] >>]
  /\ UNCHANGED <<pmVars, objects, config, is_surface_configured, depth_texture,
                 projection, surface, camera_controller, light_buffer, panicked>>

\* State::update(dt); new_pose is where camera_controller.update_camera
\* leaves the camera
update(dt, new_pose) ==
  /\ ~panicked
  /\ camera' = new_pose
  /\ camera_buffer' = update_view_proj(new_pose, projection)
  /\ light_uniform' = [light_uniform EXCEPT !.position = rotate_light(@, dt)]
  /\ light_buffer' = light_uniform'
  /\ last' = [op |-> "update", dt |-> dt,
              log |-> << [op |-> "write_buffer", buffer |-> "camera_buffer"],
                         [op |-> "write_buffer", buffer |-> "light_buffer"] >>]
  /\ UNCHANGED <<pmVars, objects, config, is_surface_configured, depth_texture,
                 projection, surface, camera_controller, panicked>>

\* Mutation of the pass: the instance buffer is not bound at vertex slot 1.
render_pass_commands_without_instance_buffer ==
  << [op |-> "set_pipeline", pipeline |-> light_render_pipeline],
     [op |-> "draw_light_model", model |-> obj_model,
      camera_bind_group |-> "camera_bind_group",
      light_bind_group |-> "light_bind_group"],
     [op |-> "set_pipeline", pipeline |-> render_pipeline],
     [op |-> "draw_model_instanced", model |-> obj_model,
      instances |-> <<0, create_instances_len>>,
      camera_bind_group |-> "camera_bind_group",
      light_bind_group |-> "light_bind_group"] >>

\* The commands State::render records into its render pass (lines 432-446).
render_pass_commands ==
  << [op |-> "set_pipeline", pipeline |-> light_render_pipeline],
     [op |-> "draw_light_model", model |-> obj_model,
      camera_bind_group |-> "camera_bind_group",
      light_bind_group |-> "light_bind_group"],
     [op |-> "set_pipeline", pipeline |-> render_pipeline],
     [op |-> "set_vertex_buffer", slot |-> 1, buffer |-> State_instance_buffer],
     [op |-> "draw_model_instanced", model |-> obj_model,
      instances |-> <<0, create_instances_len>>,
      camera_bind_group |-> "camera_bind_group",
      light_bind_group |-> "light_bind_group"] >>

\* Mutation of the frame: the command buffer is submitted while the pass is
\* still open.
render_frame_log_submits_early ==
  << [op |-> "request_redraw"],
     [op |-> "get_current_texture"],
     [op |-> "create_view"],
     [op |-> "create_command_encoder"],
     [op |-> "begin_render_pass", depth_view |-> depth_texture] >>
  \o render_pass_commands
  \o << [op |-> "submit"],
        [op |-> "end_render_pass"],
        [op |-> "present"] >>

\* What one call of State::render does, in order, when the surface image is
\* acquired.
render_frame_log ==
  << [op |-> "request_redraw"],
     [op |-> "get_current_texture"],
     [op |-> "create_view"],
     [op |-> "create_command_encoder"],
     [op |-> "begin_render_pass", depth_view |-> depth_texture] >>
  \o render_pass_commands
  \o << [op |-> "end_render_pass"],
        [op |-> "submit"],
        [op |-> "present"] >>

\* Mutation of render: the acquisition result is unwrapped, so a failure
\* panics.
render_unwraps(acquire) ==
  /\ ~panicked
  /\ last' = IF ~is_surface_configured
               THEN [op |-> "render", acquire |-> acquire, ret |-> "Ok",
                     log |-> << [op |-> "request_redraw"] >>]
               ELSE IF acquire # "Ok"
                 THEN [op |-> "render", acquire |-> acquire, ret |-> "panic",
                       log |-> << [op |-> "request_redraw"],
                                  [op |-> "get_current_texture"] >>]
                 ELSE [op |-> "render", acquire |-> acquire, ret |-> "Ok",
                       log |-> render_frame_log]
  /\ panicked' = (is_surface_configured /\ acquire # "Ok")
  /\ UNCHANGED <<pmVars, objects, stVars>>

\* Mutation of render: a failed acquisition marks the surface unconfigured.
render_marks_unconfigured(acquire) ==
  /\ ~panicked
  /\ last' = IF ~is_surface_configured
               THEN [op |-> "render", acquire |-> acquire, ret |-> "Ok",
                     log |-> << [op |-> "request_redraw"] >>]
               ELSE IF acquire # "Ok"
                 THEN [op |-> "render", acquire |-> acquire, ret |-> acquire,
                       log |-> << [op |-> "request_redraw"],
                                  [op |-> "get_current_texture"] >>]
                 ELSE [op |-> "render", acquire |-> acquire, ret |-> "Ok",
                       log |-> render_frame_log]
  /\ is_surface_configured' = (is_surface_configured /\ acquire = "Ok")
  /\ UNCHANGED <<pmVars, objects, config, depth_texture, projection, surface,
                 camera, camera_controller, camera_buffer, light_uniform,
                 light_buffer, panicked>>

\* Mutation of render: the is_surface_configured test is missing.
render_unguarded(acquire) ==
  /\ ~panicked
  /\ last' = IF acquire = "Ok"
               THEN [op |-> "render", acquire |-> acquire, ret |-> "Ok",
                     log |-> render_frame_log]
               ELSE [op |-> "render", acquire |-> acquire, ret |-> acquire,
                     log |-> << [op |-> "request_redraw"],
                                [op |-> "get_current_texture"] >>]
  /\ UNCHANGED <<pmVars, objects, stVars, panicked>>

\* State::render() -> Result<(), SurfaceError>; acquire is what
\* surface.get_current_texture() answers when it is called
render(acquire) ==
  /\ ~panicked
  /\ last' = IF ~is_surface_configured
               THEN [op |-> "render", acquire |-> acquire, ret |-> "Ok",
                     log |-> << [op |-> "request_redraw"] >>]
               ELSE IF acquire # "Ok"
                 THEN [op |-> "render", acquire |-> acquire, ret |-> acquire,
                       log |-> << [op |-> "request_redraw"],
                                  [op |-> "get_current_texture"] >>]
                 ELSE [op |-> "render", acquire |-> acquire, ret |-> "Ok",
                       log |-> render_frame_log]
  /\ UNCHANGED <<pmVars, objects, stVars, panicked>>

\* The bind-group layout a bind group was created with: material groups with
\* the texture layout, the camera and light groups with their own.
bind_group_layout_of(group) ==
  CASE group = "camera_bind_group" -> "camera"
    [] group = "light_bind_group" -> "light"
    [] OTHER -> "texture"

\* model::DrawLight::draw_light_model(model, camera_bind_group,
\* light_bind_group): the light is drawn without material, one instance.
DrawLight_draw_light_model(self, model, camera_bind_group, light_bind_group) ==
  DrawWithoutMaterial_draw_model(self, model, camera_bind_group, light_bind_group).pass

\* model::DrawModel::draw_model_instanced(model, instances, camera_bind_group,
\* light_bind_group): the model is drawn with its materials.
DrawModel_draw_model_instanced(self, model, instances, camera_bind_group, light_bind_group) ==
  DrawWithMaterial_draw_model_instanced(self, model, instances, camera_bind_group, light_bind_group).pass

\* The commands a frame records once the model-level draw calls of
\* State::render are replaced by the commands they record.
RECURSIVE expand_pass(_)
expand_pass(cmds) ==
  IF cmds = << >> THEN << >>
  ELSE LET c == Head(cmds) IN
       (IF c.op = "draw_light_model"
          THEN DrawLight_draw_light_model(<< >>, c.model, c.camera_bind_group,
                                          c.light_bind_group)
          ELSE IF c.op = "draw_model_instanced"
            THEN DrawModel_draw_model_instanced(<< >>, c.model, c.instances,
                                                c.camera_bind_group,
                                                c.light_bind_group)
            ELSE <<c>>)
       \o expand_pass(Tail(cmds))

\* ------------------------------------------------------------------ callers of the draw traits
\* A caller records one trait method into a fresh render pass; the record of
\* the call keeps its arguments and the pass it produced.
call_mesh(op, pass, mesh, material, instances, camera_bind_group, light_bind_group) ==
  [op |-> op, mesh |-> mesh, material |-> material,
   instances |-> instances,
   camera_bind_group |-> camera_bind_group,
   light_bind_group |-> light_bind_group,
   pass |-> pass]

call_model(op, out, model, instances, camera_bind_group, light_bind_group) ==
  [op |-> op, model |-> model, instances |-> instances,
   camera_bind_group |-> camera_bind_group,
   light_bind_group |-> light_bind_group,
   pass |-> out.pass]

with_material_draw_mesh(mesh, material, cbg, lbg) ==
  /\ ~panicked
  /\ last' = call_mesh("DrawWithMaterial::draw_mesh",
                       DrawWithMaterial_draw_mesh(<< >>, mesh, material, cbg, lbg),
                       mesh, material, <<0, 1>>, cbg, lbg)
  /\ UNCHANGED <<pmVars, objects, stVars, panicked>>

with_material_draw_mesh_instanced(mesh, material, instances, cbg, lbg) ==
  /\ ~panicked
  /\ last' = call_mesh("DrawWithMaterial::draw_mesh_instanced",
                       DrawWithMaterial_draw_mesh_instanced(<< >>, mesh, material, instances, cbg, lbg),
                       mesh, material, instances, cbg, lbg)
  /\ UNCHANGED <<pmVars, objects, stVars, panicked>>

with_material_draw_model(model, cbg, lbg) ==
  /\ ~panicked
  /\ last' = call_model("DrawWithMaterial::draw_model",
                        DrawWithMaterial_draw_model(<< >>, model, cbg, lbg),
                        model, <<0, 1>>, cbg, lbg)
  /\ panicked' = DrawWithMaterial_draw_model(<< >>, model, cbg, lbg).panicked
  /\ UNCHANGED <<pmVars, objects, stVars>>

with_material_draw_model_instanced(model, instances, cbg, lbg) ==
  /\ ~panicked
  /\ last' = call_model("DrawWithMaterial::draw_model_instanced",
                        DrawWithMaterial_draw_model_instanced(<< >>, model, instances, cbg, lbg),
                        model, instances, cbg, lbg)
  /\ panicked' = DrawWithMaterial_draw_model_instanced(<< >>, model, instances, cbg, lbg).panicked
  /\ UNCHANGED <<pmVars, objects, stVars>>

without_material_draw_mesh(mesh, cbg, lbg) ==
  /\ ~panicked
  /\ last' = call_mesh("DrawWithoutMaterial::draw_mesh",
                       DrawWithoutMaterial_draw_mesh(<< >>, mesh, cbg, lbg),
                       mesh, None, <<0, 1>>, cbg, lbg)
  /\ UNCHANGED <<pmVars, objects, stVars, panicked>>

without_material_draw_mesh_instanced(mesh, instances, cbg, lbg) ==
  /\ ~panicked
  /\ last' = call_mesh("DrawWithoutMaterial::draw_mesh_instanced",
                       DrawWithoutMaterial_draw_mesh_instanced(<< >>, mesh, instances, cbg, lbg),
                       mesh, None, instances, cbg, lbg)
  /\ UNCHANGED <<pmVars, objects, stVars, panicked>>

without_material_draw_model(model, cbg, lbg) ==
  /\ ~panicked
  /\ last' = call_model("DrawWithoutMaterial::draw_model",
                        DrawWithoutMaterial_draw_model(<< >>, model, cbg, lbg),
                        model, <<0, 1>>, cbg, lbg)
  /\ panicked' = DrawWithoutMaterial_draw_model(<< >>, model, cbg, lbg).panicked
  /\ UNCHANGED <<pmVars, objects, stVars>>

without_material_draw_model_instanced(model, instances, cbg, lbg) ==
  /\ ~panicked
  /\ last' = call_model("DrawWithoutMaterial::draw_model_instanced",
                        DrawWithoutMaterial_draw_model_instanced(<< >>, model, instances, cbg, lbg),
                        model, instances, cbg, lbg)
  /\ panicked' = DrawWithoutMaterial_draw_model_instanced(<< >>, model, instances, cbg, lbg).panicked
  /\ UNCHANGED <<pmVars, objects, stVars>>

\* ------------------------------------------------------------------ specifications
Init ==
  /\ PipelineManager_new
  /\ objects = << >>
  /\ State_new
  /\ panicked = FALSE
  /\ last = [op |-> "new"]

\* The pipeline manager alone.
NextPM ==
  \/ \E name \in Names, desc \in Descs : add_pipeline(name, desc)
  \/ \E name \in Names : lookup(name)

SpecPM == Init /\ [][NextPM]_vars

\* One renderable object, its instance list and its buffer.
NextObj ==
  \/ /\ objects = << >>
     /\ \E model \in {ModelCube, ModelTwo}, instances \in InstanceLists(MaxInstances),
           pipeline_name \in {None, Some("light")}, draw_method \in DrawMethods :
          RenderableObject_new(model, instances, pipeline_name, draw_method)
  \/ \E i \in 1..Len(objects) : draw(i)
  \/ \E i \in 1..Len(objects) : update_instances(i)
  \/ \E i \in 1..Len(objects), inst \in Instances :
       /\ Len(objects[i].instances) < MaxInstances
       /\ instances_push(i, inst)
  \/ \E i \in 1..Len(objects) : instances_pop(i)
  \/ \E i \in 1..Len(objects), k \in 1..MaxInstances, inst \in Instances :
       instances_set(i, k, inst)

\* The orchestrator takes no step here: it stays as constructed for one window
\* size.
InitObj == Init /\ config = [width |-> 1, height |-> 1]

SpecObj == InitObj /\ [][NextObj]_vars

\* The draw strategies alone: every trait method, on every mesh and model.
NextDraw ==
  \/ \E mesh \in Meshes, material \in Materials, cbg \in BindGroups, lbg \in BindGroups :
       with_material_draw_mesh(mesh, material, cbg, lbg)
  \/ \E mesh \in Meshes, material \in Materials, instances \in Ranges,
        cbg \in BindGroups, lbg \in BindGroups :
       with_material_draw_mesh_instanced(mesh, material, instances, cbg, lbg)
  \/ \E model \in Models, cbg \in BindGroups, lbg \in BindGroups :
       with_material_draw_model(model, cbg, lbg)
  \/ \E model \in Models, instances \in Ranges, cbg \in BindGroups, lbg \in BindGroups :
       with_material_draw_model_instanced(model, instances, cbg, lbg)
  \/ \E mesh \in Meshes, cbg \in BindGroups, lbg \in BindGroups :
       without_material_draw_mesh(mesh, cbg, lbg)
  \/ \E mesh \in Meshes, instances \in Ranges, cbg \in BindGroups, lbg \in BindGroups :
       without_material_draw_mesh_instanced(mesh, instances, cbg, lbg)
  \/ \E model \in Models, cbg \in BindGroups, lbg \in BindGroups :
       without_material_draw_model(model, cbg, lbg)
  \/ \E model \in Models, instances \in Ranges, cbg \in BindGroups, lbg \in BindGroups :
       without_material_draw_model_instanced(model, instances, cbg, lbg)

SpecDraw == Init /\ [][NextDraw]_vars

\* The frame orchestrator alone.
NextState ==
  \/ \E width \in Dims, height \in Dims : resize(width, height)
  \/ \E dt \in Dts, new_pose \in Cameras : update(dt, new_pose)
  \/ \E acquire \in {"Ok"} \cup SurfaceErrors : render(acquire)
  \/ \E key \in Keys, pressed \in BOOLEAN : handle_key(key, pressed)

SpecState == Init /\ [][NextState]_vars

\* A scene: pipelines registered by name, objects constructed in order, the
\* surface resized, frames rendered.
SceneLists == {SubSeq(<<[position |-> <<0, 0, 0>>, rotation |-> 0],
                        [position |-> <<3, 0, -3>>, rotation |-> 1]>>, 1, n) :
                 n \in 0..1}

NextScene ==
  \/ \E name \in {"main", "light"} : add_pipeline(name, IF name = "main" THEN DescMain ELSE DescLight)
  \/ /\ Len(objects) < MaxObjects
     /\ \E kind \in {"main", "light"}, instances \in SceneLists,
           pipeline_name \in {None, Some("light"), Some("ghost")} :
          RenderableObject_new(ModelCube, instances, pipeline_name,
                               IF kind = "main" THEN "WithMaterial" ELSE "WithoutMaterial")
  \/ resize(MaxDim, 1)
  \/ \E acquire \in {"Ok", "Lost"} : render(acquire)

SpecScene == Init /\ [][NextScene]_vars

Next == NextPM \/ NextObj \/ NextDraw \/ NextState \/ NextScene

Spec == Init /\ [][Next]_vars

\* ------------------------------------------------------------------ reading a frame
\* The operations a log holds
LogOps(log) == {log[k].op : k \in DOMAIN log}

\* The last operation was a render that acquired a surface image and drew.
FrameDrawn ==
  /\ last.op = "render"
  /\ "begin_render_pass" \in LogOps(last.log)

DrawOps == {"draw_light_model", "draw_model_instanced"}

\* The pipeline name render is to resolve for an object: its own, or "main"
NameOf(obj) == IF obj.pipeline_name.some THEN obj.pipeline_name.val ELSE "main"

\* The instance buffer object i owns
ObjectBuffer(i) == [owner |-> "RenderableObject", id |-> i]

\* model::DrawLight::draw_light_model draws the single instance range 0..1
draw_light_model_instances == <<0, 1>>

\* The instance range a draw command of a frame covers
DrawRange(c) ==
  IF c.op = "draw_model_instanced" THEN c.instances ELSE draw_light_model_instances

\* ------------------------------------------------------------------ claims

\* C1: registration is idempotent by name.  A step add_pipeline(N, B) taken
\* when N was registered before (by any descriptor, with any other
\* registrations in between) returns the handle the first registration of N
\* returned, and leaves the stored pipelines and the name map unchanged.
C1_IdempotentRegistration ==
  [][(last'.op = "add_pipeline" /\ last'.name \in registered)
       => /\ last'.ret = first_handle[last'.name]
          /\ pipelines' = pipelines
          /\ pipeline_map' = pipeline_map]_vars

\* C1 witness: a name registered a second time with a descriptor other than
\* the stored one, after another name was registered in between.
C1_Witness ==
  /\ last.op = "add_pipeline"
  /\ last.ret + 1 < Len(pipelines)
  /\ pipelines[last.ret + 1].desc # last.desc
  /\ last.ret = first_handle[last.name]

\* C2: at most one pipeline per distinct name.  The number of stored
\* pipelines equals the number of distinct names ever registered, the name
\* map is defined exactly on those names, and no two names share a slot.
C2_OnePipelinePerName ==
  /\ Len(pipelines) = Cardinality(registered)
  /\ DOMAIN pipeline_map = registered
  /\ \A n \in DOMAIN pipeline_map : pipeline_map[n] \in 0..(Len(pipelines) - 1)
  /\ \A n, m \in DOMAIN pipeline_map : n # m => pipeline_map[n] # pipeline_map[m]

\* C2 witness: every name registered, the last call a repeated registration.
C2_Witness ==
  /\ registered = Names
  /\ last.op = "add_pipeline"
  /\ last.ret + 1 < Len(pipelines)

\* Object i's instance buffer is bound somewhere in the last frame.
C3_Bound(i) ==
  \E k \in DOMAIN last.log :
    /\ last.log[k].op = "set_vertex_buffer"
    /\ last.log[k].buffer = ObjectBuffer(i)

\* Object i is drawn in the last frame: its resolved pipeline is bound, then
\* its own instance buffer at slot 1, then a draw over all its instances.
C3_Drawn(i) ==
  \E k \in DOMAIN last.log :
    /\ k + 2 \in DOMAIN last.log
    /\ last.log[k].op = "set_pipeline"
    /\ Some(last.log[k].pipeline) = get_by_name(NameOf(objects[i]))
    /\ last.log[k + 1].op = "set_vertex_buffer"
    /\ last.log[k + 1].slot = 1
    /\ last.log[k + 1].buffer = ObjectBuffer(i)
    /\ last.log[k + 2].op \in DrawOps
    /\ DrawRange(last.log[k + 2]) = <<0, Len(objects[i].instances)>>

\* C3 (as claimed): in a frame that is drawn while some object's pipeline
\* name is unregistered, that object is skipped (its instance buffer is never
\* bound), every object whose name resolves is drawn (its pipeline bound,
\* then its own instance buffer at slot 1, then a draw over its instances),
\* and the frame is submitted and presented with a success result.
C3_MissingPipelineSkipsOnlyThatObject ==
  (/\ FrameDrawn
   /\ \E i \in DOMAIN objects : ~get_by_name(NameOf(objects[i])).some)
  => /\ last.ret = "Ok"
     /\ {"submit", "present"} \subseteq LogOps(last.log)
     /\ \A i \in DOMAIN objects :
          IF get_by_name(NameOf(objects[i])).some THEN C3_Drawn(i) ELSE ~C3_Bound(i)

\* C4 (as claimed): in a drawn frame every draw is issued right after the
\* bind of an instance buffer at vertex slot 1, itself right after the bind
\* of a pipeline that the Pipeline Manager resolves by name.
C4_BindPipelineThenInstanceBufferThenDraw ==
  FrameDrawn =>
    \A k \in DOMAIN last.log :
      last.log[k].op \in DrawOps =>
        /\ k > 2
        /\ last.log[k - 1].op = "set_vertex_buffer"
        /\ last.log[k - 1].slot = 1
        /\ last.log[k - 2].op = "set_pipeline"
        /\ \E n \in Names : get_by_name(n) = Some(last.log[k - 2].pipeline)

\* The two-object scene: a main textured object, then a light indicator of
\* one instance, both pipeline names registered.
C5_Scene ==
  /\ Len(objects) = 2
  /\ NameOf(objects[1]) = "main" /\ objects[1].draw_method = "WithMaterial"
  /\ NameOf(objects[2]) = "light" /\ objects[2].draw_method = "WithoutMaterial"
  /\ Len(objects[2].instances) = 1
  /\ {"main", "light"} \subseteq DOMAIN pipeline_map

\* C5 (as claimed): with "main" and "light" registered and the scene a main
\* object of N instances followed by a light object of 1 instance, a drawn
\* frame binds exactly two pipelines, the one of "main" then the one of
\* "light", and draws the ranges [0, N) then [0, 1).
C5_TwoObjectScene ==
  (FrameDrawn /\ C5_Scene) =>
    LET binds == SelectSeq(last.log, LAMBDA c : c.op = "set_pipeline")
        draws == SelectSeq(last.log, LAMBDA c : c.op \in DrawOps)
    IN /\ Len(binds) = 2
       /\ Some(binds[1].pipeline) = get_by_name("main")
       /\ Some(binds[2].pipeline) = get_by_name("light")
       /\ Len(draws) = 2
       /\ DrawRange(draws[1]) = <<0, Len(objects[1].instances)>>
       /\ DrawRange(draws[2]) = <<0, 1>>

\* C6: a render while the surface is not configured skips the frame: it
\* returns success and acquires no surface image, opens no render pass,
\* records no command, submits nothing and presents nothing.
C6_UnconfiguredRenderSkipsFrame ==
  (last.op = "render" /\ ~is_surface_configured)
  => /\ last.ret = "Ok"
     /\ LogOps(last.log) \subseteq {"request_redraw"}

\* C6 witness: a render before the first resize, asked with a failing
\* acquisition, after an update.
C6_Witness ==
  /\ last.op = "render"
  /\ ~is_surface_configured
  /\ surface = None
  /\ last.acquire = "Lost"
  /\ light_uniform.position # 0

\* C7: a resize with width = 0 or height = 0 changes nothing: not the stored
\* configuration, the depth buffer, the projection, the configured flag, nor
\* what the surface is configured with.
C7_ZeroResizeIsNoOp ==
  [][(last'.op = "resize" /\ (last'.width = 0 \/ last'.height = 0))
       => UNCHANGED <<config, depth_texture, projection, is_surface_configured,
                      surface>>]_vars

\* C7 witness: a zero-width resize with a positive height, arriving after the
\* surface was configured with other dimensions.
C7_Witness ==
  /\ last.op = "resize"
  /\ last.width = 0
  /\ last.height > 0
  /\ is_surface_configured
  /\ config.height # last.height

\* C8: wherever a render pass begins, the depth buffer attached to it has
\* the width and height of the stored surface configuration.
C8_DepthMatchesConfigAtPassBegin ==
  last.op = "render" =>
    \A k \in DOMAIN last.log :
      last.log[k].op = "begin_render_pass" =>
        /\ last.log[k].depth_view.width = config.width
        /\ last.log[k].depth_view.height = config.height

\* C8 witness: a pass begun after a resize to a non-square extent and an
\* update.
C8_Witness ==
  /\ FrameDrawn
  /\ config.width # config.height
  /\ light_uniform.position # 0

\* C9 (as claimed): after construction and after every update_instances, the
\* object's instance buffer holds exactly the raw records derived from its
\* current instance list, record for record.
C9_BufferHoldsCurrentInstances ==
  last.op \in {"RenderableObject::new", "update_instances"} =>
    /\ Len(objects[last.obj].instance_buffer) = Len(objects[last.obj].instances)
    /\ objects[last.obj].instance_buffer = instance_data(objects[last.obj].instances)

\* C10: each single-instance form records exactly what the instanced form
\* records for the range [0, 1) and the same other arguments.
C10_SingleInstanceIsRangeZeroOne ==
  /\ last.op = "DrawWithMaterial::draw_mesh" =>
       last.pass = DrawWithMaterial_draw_mesh_instanced(
                     << >>, last.mesh, last.material, <<0, 1>>,
                     last.camera_bind_group, last.light_bind_group)
  /\ last.op = "DrawWithMaterial::draw_model" =>
       LET out == DrawWithMaterial_draw_model_instanced(
                    << >>, last.model, <<0, 1>>,
                    last.camera_bind_group, last.light_bind_group)
       IN last.pass = out.pass /\ panicked = out.panicked
  /\ last.op = "DrawWithoutMaterial::draw_mesh" =>
       last.pass = DrawWithoutMaterial_draw_mesh_instanced(
                     << >>, last.mesh, <<0, 1>>,
                     last.camera_bind_group, last.light_bind_group)
  /\ last.op = "DrawWithoutMaterial::draw_model" =>
       LET out == DrawWithoutMaterial_draw_model_instanced(
                    << >>, last.model, <<0, 1>>,
                    last.camera_bind_group, last.light_bind_group)
       IN last.pass = out.pass /\ panicked = out.panicked

\* C10 witness: the single-instance model form of the without-material
\* strategy has recorded the draws of a two-mesh model.
C10_Witness ==
  /\ last.op = "DrawWithoutMaterial::draw_model"
  /\ last.model = ModelTwo
  /\ Len(last.pass) = 10
  /\ last.pass[10].instances = <<0, 1>>

\* C11: the with-material draw_mesh_instanced records exactly six commands:
\* the mesh's vertex buffer at vertex slot 0, the mesh's index buffer with
\* 32-bit indices, the material's group at bind-group slot 0, the camera
\* group at slot 1, the light group at slot 2, then one indexed draw over
\* [0, num_elements) with base vertex 0 and the given instance range.
C11_WithMaterialMeshSequence ==
  last.op = "DrawWithMaterial::draw_mesh_instanced" =>
    /\ Len(last.pass) = 6
    /\ last.pass[1].op = "set_vertex_buffer"
    /\ last.pass[1].slot = 0
    /\ last.pass[1].buffer = last.mesh.vertex_buffer
    /\ last.pass[2].op = "set_index_buffer"
    /\ last.pass[2].buffer = last.mesh.index_buffer
    /\ last.pass[2].format = "Uint32"
    /\ \A k \in 3..5 : last.pass[k].op = "set_bind_group" /\ last.pass[k].index = k - 3
    /\ last.pass[3].group = last.material.bind_group
    /\ last.pass[4].group = last.camera_bind_group
    /\ last.pass[5].group = last.light_bind_group
    /\ last.pass[6].op = "draw_indexed"
    /\ last.pass[6].indices = <<0, last.mesh.num_elements>>
    /\ last.pass[6].base_vertex = 0
    /\ last.pass[6].instances = last.instances

\* C11 witness: the form was called on the six-index mesh with the second
\* material, a range that does not start at 0, and distinct camera and light
\* groups.
C11_Witness ==
  /\ last.op = "DrawWithMaterial::draw_mesh_instanced"
  /\ last.mesh = MeshB
  /\ last.material = MatB
  /\ last.instances = <<1, 2>>
  /\ last.camera_bind_group # last.light_bind_group

\* The positions of the commands of a recorded pass that are of kind op.
Positions_of(pass, op) == {k \in 1..Len(pass) : pass[k].op = op}

\* C12: the without-material draw_mesh_instanced makes the same vertex- and
\* index-buffer bindings, binds the camera group at slot 0 and the light group
\* at slot 1, binds no material group and never touches slot 2, and issues one
\* indexed draw; its draw_model_instanced binds the same camera and light
\* groups at those slots for every mesh.
C12_WithoutMaterialBindings ==
  /\ last.op = "DrawWithoutMaterial::draw_mesh_instanced" =>
       /\ Len(last.pass) = 5
       /\ last.pass[1].op = "set_vertex_buffer"
       /\ last.pass[1].slot = 0
       /\ last.pass[1].buffer = last.mesh.vertex_buffer
       /\ last.pass[2].op = "set_index_buffer"
       /\ last.pass[2].format = "Uint32"
       /\ last.pass[2].buffer = last.mesh.index_buffer
       /\ last.pass[3].op = "set_bind_group"
       /\ last.pass[3].index = 0
       /\ last.pass[3].group = last.camera_bind_group
       /\ last.pass[4].op = "set_bind_group"
       /\ last.pass[4].index = 1
       /\ last.pass[4].group = last.light_bind_group
       /\ last.pass[5].op = "draw_indexed"
       /\ last.pass[5].indices = <<0, last.mesh.num_elements>>
       /\ last.pass[5].base_vertex = 0
       /\ last.pass[5].instances = last.instances
  /\ last.op = "DrawWithoutMaterial::draw_model_instanced" =>
       /\ Cardinality(Positions_of(last.pass, "set_bind_group"))
            = 2 * Len(last.model.meshes)
       /\ \A k \in Positions_of(last.pass, "set_bind_group") :
            \/ last.pass[k].index = 0 /\ last.pass[k].group = last.camera_bind_group
            \/ last.pass[k].index = 1 /\ last.pass[k].group = last.light_bind_group
       /\ \A k \in Positions_of(last.pass, "draw_indexed") :
            /\ last.pass[k - 2].op = "set_bind_group" /\ last.pass[k - 2].index = 0
            /\ last.pass[k - 1].op = "set_bind_group" /\ last.pass[k - 1].index = 1

\* C12 witness: the model form ran over a model of two meshes whose material
\* indices differ, with distinct camera and light groups.
C12_Witness ==
  /\ last.op = "DrawWithoutMaterial::draw_model_instanced"
  /\ last.model = ModelTwo
  /\ last.camera_bind_group # last.light_bind_group
  /\ Cardinality(Positions_of(last.pass, "draw_indexed")) = 2

\* C13: the with-material draw_model_instanced fails, fatally and not
\* silently, exactly when some mesh of the model has a material index that is
\* not below the number of materials: the call then panics and no draw with a
\* substituted material is recorded for that mesh; with every index in range
\* it never fails.
C13_MaterialIndexOutOfRangeIsFatal ==
  last.op = "DrawWithMaterial::draw_model_instanced" =>
    LET bad == {k \in 1..Len(last.model.meshes) :
                  last.model.meshes[k].material >= Len(last.model.materials)}
    IN /\ panicked <=> bad # {}
       /\ bad # {} =>
            \A b \in bad : Cardinality(Positions_of(last.pass, "draw_indexed")) < b

\* C13 witness: the call on the model whose second mesh names material 2 of
\* two has panicked after the first mesh was drawn.
C13_Witness ==
  /\ last.op = "DrawWithMaterial::draw_model_instanced"
  /\ last.model = ModelBad
  /\ panicked
  /\ Cardinality(Positions_of(last.pass, "draw_indexed")) = 1

\* C13 second witness: a call with every index in range has not failed.
C13_InRange ==
  /\ last.op = "DrawWithMaterial::draw_model_instanced"
  /\ last.model = ModelTwo
  /\ ~panicked

\* C20: for both strategies, a draw_model_instanced call that returns has
\* issued exactly one indexed draw per mesh of the model, in the meshes'
\* storage order, each over that mesh's indices and with the instance range
\* passed in; in the with-material strategy the material group bound for mesh
\* m is that of materials[m.material] of the same model; a model with zero
\* meshes records no commands.
C20_OneDrawPerMeshInStorageOrder ==
  (/\ last.op \in {"DrawWithMaterial::draw_model_instanced",
                   "DrawWithoutMaterial::draw_model_instanced"}
   /\ ~panicked) =>
    LET wm == last.op = "DrawWithMaterial::draw_model_instanced"
        stride == IF wm THEN 6 ELSE 5
        meshes == last.model.meshes
        materials == last.model.materials
    IN /\ Len(last.pass) = stride * Len(meshes)
       /\ Cardinality(Positions_of(last.pass, "draw_indexed")) = Len(meshes)
       /\ meshes = << >> => last.pass = << >>
       /\ \A k \in 1..Len(meshes) :
            LET first == stride * (k - 1) + 1
                drawn == last.pass[stride * k]
            IN /\ last.pass[first].op = "set_vertex_buffer"
               /\ last.pass[first].buffer = meshes[k].vertex_buffer
               /\ last.pass[first + 1].op = "set_index_buffer"
               /\ last.pass[first + 1].buffer = meshes[k].index_buffer
               /\ drawn.op = "draw_indexed"
               /\ drawn.indices = <<0, meshes[k].num_elements>>
               /\ drawn.instances = last.instances
               /\ wm => /\ last.pass[first + 2].op = "set_bind_group"
                        /\ last.pass[first + 2].index = 0
                        /\ last.pass[first + 2].group
                             = materials[meshes[k].material + 1].bind_group

\* C20 witness: the with-material form has drawn the two-mesh model, whose
\* meshes are stored in the opposite order to their materials, over a range
\* that does not start at 0.
C20_Witness ==
  /\ last.op = "DrawWithMaterial::draw_model_instanced"
  /\ last.model = ModelTwo
  /\ last.instances = <<1, 2>>
  /\ ~panicked
  /\ Len(last.pass) = 12

\* C20 second witness: a model without meshes was drawn and nothing recorded.
C20_EmptyModel ==
  /\ last.op = "DrawWithoutMaterial::draw_model_instanced"
  /\ last.model = ModelEmpty
  /\ last.pass = << >>

\* C14: RenderableObject::draw records what the draw_model_instanced of the
\* strategy named by the object's draw-method tag records, on the object's own
\* model, with the instance range [0, instance_count) where instance_count is
\* the current length of the object's instance list: every indexed draw has
\* that full range, and the commands are never those of the other strategy.
C14_DrawDispatchesOnTagOverFullRange ==
  last.op = "RenderableObject::draw" =>
    LET self == objects[last.obj]
        full == <<0, Len(self.instances)>>
        cbg == "camera_bind_group"
        lbg == "light_bind_group"
        wm == DrawWithMaterial_draw_model_instanced(<< >>, self.model, full, cbg, lbg)
        wom == DrawWithoutMaterial_draw_model_instanced(<< >>, self.model, full, cbg, lbg)
    IN /\ self.draw_method = "WithMaterial" =>
            /\ last.pass = wm.pass
            /\ last.pass # wom.pass
            /\ panicked = wm.panicked
       /\ self.draw_method = "WithoutMaterial" =>
            /\ last.pass = wom.pass
            /\ last.pass # wm.pass
            /\ panicked = wom.panicked
       /\ \A k \in Positions_of(last.pass, "draw_indexed") :
            last.pass[k].instances = full
       /\ \A k \in Positions_of(last.pass, "set_vertex_buffer") :
            \E m \in 1..Len(self.model.meshes) :
              last.pass[k].buffer = self.model.meshes[m].vertex_buffer
       /\ (\E k \in Positions_of(last.pass, "set_bind_group") : last.pass[k].index = 2)
            <=> self.draw_method = "WithMaterial"

\* C14 witness: an object tagged WithoutMaterial that holds two instances and
\* the two-mesh model has been drawn.
C14_Witness ==
  /\ last.op = "RenderableObject::draw"
  /\ objects[last.obj].draw_method = "WithoutMaterial"
  /\ objects[last.obj].model = ModelTwo
  /\ Len(objects[last.obj].instances) = 2
  /\ Len(last.pass) = 10

\* C14 second witness: an object tagged WithMaterial with one instance left
\* has been drawn.
C14_WithMaterial ==
  /\ last.op = "RenderableObject::draw"
  /\ objects[last.obj].draw_method = "WithMaterial"
  /\ Len(objects[last.obj].instances) = 1
  /\ Len(last.pass) = 6

\* C15: pipelines are never evicted or replaced.  The first registration of a
\* name N makes get_by_name(N) the pipeline created from that call's
\* arguments; from then on no step, whatever name it registers or
\* re-registers, changes what get_by_name(N) returns.  A get_by_name call
\* returns the stored answer, None for a name that was never registered,
\* without failing and without changing the manager.
C15_NoEvictionNoReplacement ==
  [][/\ \A n \in registered :
          /\ get_by_name(n).some
          /\ get_by_name(n)' = get_by_name(n)
     /\ \A n \in Names \ registered' : get_by_name(n)' = None
     /\ \A n \in Names \ registered :
          (last'.op = "add_pipeline" /\ last'.name = n) =>
            get_by_name(n)' = Some(create_render_pipeline(n, last'.desc))
     /\ last'.op = "get_by_name" =>
          /\ last'.ret = get_by_name(last'.name)
          /\ last'.name \notin registered => last'.ret = None
          /\ UNCHANGED pmVars
          /\ ~panicked']_vars

\* C15 witness: a registered name was registered again with a descriptor
\* other than the stored one, after every other name was registered too, and
\* its lookup still yields the pipeline of the first descriptor.
C15_Witness ==
  /\ last.op = "add_pipeline"
  /\ registered = Names
  /\ last.ret + 1 < Len(pipelines)
  /\ get_by_name(last.name).some
  /\ get_by_name(last.name).val.desc # last.desc

\* C15 second witness: a lookup of a name never registered returned None
\* while other names were registered.
C15_Miss ==
  /\ last.op = "get_by_name"
  /\ last.name \notin registered
  /\ last.ret = None
  /\ pipelines # << >>

\* The operations of a frame that touch the surface or the queue's submission.
SurfaceOps == {"get_current_texture", "begin_render_pass", "end_render_pass", "submit", "present"}

\* The commands that are recorded into a render pass.
PassOps == {"set_pipeline", "set_vertex_buffer", "set_index_buffer", "set_bind_group", "draw_indexed"} \cup DrawOps

\* C16: when the surface is configured and acquiring the next surface image
\* fails, render returns that error without panicking; in that call no render
\* pass is opened, nothing is recorded, submitted or presented, and the
\* configuration, the configured flag, the depth buffer, the camera and light
\* uniforms and their buffers are unchanged, so a later render is still
\* possible.
C16_AcquireFailureIsReturned ==
  [][(last'.op = "render" /\ is_surface_configured /\ last'.acquire # "Ok") =>
       /\ last'.ret = last'.acquire
       /\ last'.ret \in SurfaceErrors
       /\ ~panicked'
       /\ LogOps(last'.log) \cap
            ({"begin_render_pass", "end_render_pass", "submit", "present"}
               \cup PassOps) = {}
       /\ UNCHANGED stVars
       /\ is_surface_configured']_vars

\* C16 witness: a render on a configured surface has returned the error Lost.
C16_Witness ==
  /\ last.op = "render"
  /\ is_surface_configured
  /\ last.acquire = "Lost"
  /\ last.ret = "Lost"
  /\ ~panicked

\* C17: every render call that acquires a surface image opens exactly one
\* render pass, submits exactly once and presents exactly once, in the order:
\* image acquired, pass opened, draws recorded, pass closed, command buffer
\* submitted, image presented; every recorded command lies inside the pass and
\* the submission comes after the pass is closed.
C17_OnePassOneSubmitOnePresentInOrder ==
  (last.op = "render" /\ "create_view" \in LogOps(last.log)) =>
    LET log == last.log
        at(op) == Positions_of(log, op)
    IN /\ \A op \in SurfaceOps : Cardinality(at(op)) = 1
       /\ \E a \in at("get_current_texture"), b \in at("begin_render_pass"),
             e \in at("end_render_pass"), s \in at("submit"), p \in at("present") :
            /\ a < b /\ b < e /\ e < s /\ s < p
            /\ p = Len(log)
            /\ \A k \in DOMAIN log : log[k].op \in PassOps => b < k /\ k < e
            /\ \E k \in DOMAIN log : log[k].op \in DrawOps /\ b < k /\ k < e

\* C17 witness: a configured render acquired its image and drew.
C17_Witness ==
  /\ last.op = "render"
  /\ is_surface_configured
  /\ last.acquire = "Ok"
  /\ last.ret = "Ok"
  /\ Cardinality(Positions_of(last.log, "submit")) = 1
  /\ Cardinality({k \in DOMAIN last.log : last.log[k].op \in DrawOps}) = 2

\* C18: an update call writes the camera uniform buffer once and the light
\* uniform buffer once and has no other GPU effect: it acquires, submits and
\* presents nothing, and leaves the surface and its configuration, the
\* configured flag, the depth buffer, the pipelines and the instance data
\* unchanged; after it each buffer holds its uniform.
C18_UpdateWritesTwoBuffersOnly ==
  [][last'.op = "update" =>
       /\ Len(last'.log) = 2
       /\ \A k \in 1..2 : last'.log[k].op = "write_buffer"
       /\ {last'.log[k].buffer : k \in 1..2} = {"camera_buffer", "light_buffer"}
       /\ camera_buffer' = update_view_proj(camera', projection')
       /\ light_buffer' = light_uniform'
       /\ UNCHANGED <<config, is_surface_configured, depth_texture, surface,
                      projection, pmVars, objects, panicked>>]_vars

\* C18 witness: an update on a configured surface that moved the camera and
\* the light.
C18_Witness ==
  /\ last.op = "update"
  /\ last.dt = 2
  /\ is_surface_configured
  /\ camera # "pose0"
  /\ light_buffer.position # 0

\* C19: a key-press event for Escape requests event-loop exit, whatever the
\* state of the orchestrator and of the camera controller; an Escape release
\* and every event of any other key never request exit.
C19_EscapePressExits ==
  last.op = "handle_key" =>
    (last.exit <=> (last.key = "Escape" /\ last.pressed))

\* C19 witness: Escape was pressed while the controller held both movement
\* keys and the surface was configured, and exit was requested.
C19_Witness ==
  /\ last.op = "handle_key"
  /\ last.key = "Escape"
  /\ last.pressed
  /\ last.exit
  /\ camera_controller = MovementKeys
  /\ is_surface_configured

\* C19 second witness: Escape was released and no exit was requested.
C19_Release ==
  /\ last.op = "handle_key"
  /\ last.key = "Escape"
  /\ ~last.pressed
  /\ ~last.exit

\* C22: the configured flag starts false; whenever it is true the stored
\* configuration has strictly positive width and height and is what the
\* surface was last configured with; it becomes true only in a resize with
\* strictly positive width and height, and once true it stays true; a surface
\* image is acquired only while it is true, hence only after the surface has
\* been configured.
C22_ConfiguredFlag ==
  /\ ~is_surface_configured
  /\ surface = None
  /\ [][/\ is_surface_configured' =>
             /\ config'.width > 0
             /\ config'.height > 0
             /\ surface' = Some(config')
        /\ ~is_surface_configured' => surface' = None
        /\ is_surface_configured => is_surface_configured'
        /\ (~is_surface_configured /\ is_surface_configured') =>
             /\ last'.op = "resize"
             /\ last'.width > 0
             /\ last'.height > 0
        /\ (last'.op = "resize" /\ last'.width > 0 /\ last'.height > 0) =>
             /\ is_surface_configured'
             /\ config' = [width |-> last'.width, height |-> last'.height]
        /\ (last'.op = "render" /\ "get_current_texture" \in LogOps(last'.log)) =>
             /\ is_surface_configured
             /\ surface.some]_vars

\* C22 witness: a zero-sized resize arrived after the surface was configured
\* with unequal dimensions, and the flag and the configuration are still those
\* of the configuring resize.
C22_Witness ==
  /\ last.op = "resize"
  /\ last.width = 0
  /\ is_surface_configured
  /\ config.width # config.height
  /\ surface = Some(config)

\* C22 second witness: a render acquired a surface image on the configured
\* surface.
C22_Acquired ==
  /\ last.op = "render"
  /\ "get_current_texture" \in LogOps(last.log)
  /\ is_surface_configured

\* The greatest element of a non-empty set of positions.
Latest(S) == CHOOSE j \in S : \A i \in S : i <= j

\* C21: in every rendered frame each indexed draw comes, inside the render
\* pass that is open, after a pipeline bind, a vertex-buffer bind at slot 0, an
\* index-buffer bind, a bind of every bind-group slot the bound pipeline's
\* layout expects with a group of that slot's layout (slots 0, 1, 2 for the
\* textured pipeline, slots 0, 1 for the light pipeline) and, when the bound
\* pipeline's vertex layouts include the per-instance layout, a bind of a
\* buffer at vertex slot 1; only binds made since the frame's own pass was
\* opened count.
C21_NoDrawWithUnboundState ==
  FrameDrawn =>
    LET E == expand_pass(last.log) IN
    /\ Positions_of(E, "draw_indexed") # {}
    /\ \A k \in Positions_of(E, "draw_indexed") :
         LET opened == {j \in 1..(k - 1) : E[j].op = "begin_render_pass"}
             closed == {j \in 1..(k - 1) : E[j].op = "end_render_pass"}
         IN /\ opened # {}
            /\ closed = {}
            /\ LET inpass == (Latest(opened) + 1)..(k - 1)
                   pipes == {j \in inpass : E[j].op = "set_pipeline"}
               IN /\ pipes # {}
                  /\ \E j \in inpass : E[j].op = "set_vertex_buffer" /\ E[j].slot = 0
                  /\ \E j \in inpass : E[j].op = "set_index_buffer"
                  /\ LET desc == E[Latest(pipes)].pipeline.desc IN
                     /\ \A s \in 1..Len(desc.bind_group_layouts) :
                          LET binds == {j \in inpass : /\ E[j].op = "set_bind_group"
                                                       /\ E[j].index = s - 1}
                          IN /\ binds # {}
                             /\ bind_group_layout_of(E[Latest(binds)].group)
                                  = desc.bind_group_layouts[s]
                     /\ (\E v \in 1..Len(desc.vertex_layouts) :
                           desc.vertex_layouts[v] = "InstanceRaw") =>
                          \E j \in inpass : /\ E[j].op = "set_vertex_buffer"
                                            /\ E[j].slot = 1

\* C21 witness: a frame was rendered whose pass holds two indexed draws, the
\* first under the light pipeline and the second under the textured one.
C21_Witness ==
  /\ FrameDrawn
  /\ Cardinality(Positions_of(expand_pass(last.log), "draw_indexed")) = 2
  /\ Cardinality({expand_pass(last.log)[j].pipeline :
                    j \in Positions_of(expand_pass(last.log), "set_pipeline")}) = 2
  /\ Cardinality({j \in Positions_of(expand_pass(last.log), "set_bind_group") :
                    expand_pass(last.log)[j].index = 2}) = 1

====
